---- MODULE Spec2Model ----
(***************************************************************************)
(* hierrorchy: the two procedural macros of src/src/lib.rs.                *)
(*                                                                         *)
(*   SpecNode  error_node!: ErrorNode::parse run token by token over an    *)
(*             input stream, then the expansion of the parsed declaration. *)
(*   SpecLeaf  #[error_leaf]: MessageFormat::parse over the attribute      *)
(*             payload, the expansion, and Display of the emitted leaf.    *)
(*   SpecTree  the emitted code at run time: a leaf lifted through node    *)
(*             types by the emitted From impls, source() and Display.      *)
(*                                                                         *)
(* Strings are sequences of one-character strings; identifiers and string  *)
(* literals carry their text in that form.                                 *)
(***************************************************************************)
EXTENDS Integers, Sequences, FiniteSets, TLC

VARIABLES
  tokens,          \* the tokens the parse stream's cursor has moved past
  next,            \* the token at the cursor (EOF at the end of input)
  pc,              \* position of the macro invocation
  is_pub,          \* ErrorNode.is_pub
  node_name,       \* ErrorNode.node_name
  variants,        \* ErrorNode.variants
  message_prefix,  \* ErrorNode.message_prefix
  msg_fmt,         \* error_leaf: the parsed MessageFormat
  item,            \* error_leaf: the annotated item
  out,             \* the token stream the macro returns
  value,           \* run time: an instance of an emitted type
  call,            \* run time: the last From call (index, argument)
  cause,           \* run time: what source() returned
  rendered         \* run time: what Display wrote

vars == <<tokens, next, pc, is_pub, node_name, variants, message_prefix,
          msg_fmt, item, out, value, call, cause, rendered>>

\* ------------------------------------------------------------- bounds
MaxTokens == 9
MaxStr == 2
MaxDepth == 2
MaxVariants == 2

\* ------------------------------------------------------------- values
None == [some |-> FALSE]
Some(x) == [some |-> TRUE, v |-> x]

Chars == {"x", "{", "}"}

RECURSIVE StrsOfLen(_)
StrsOfLen(n) ==
  IF n = 0 THEN {<<>>}
  ELSE {Append(s, c) : s \in StrsOfLen(n - 1), c \in Chars}

LitStrs == UNION {StrsOfLen(n) : n \in 0..MaxStr}

Idents == {<<"N">>, <<"A">>, <<"B">>}

Tok(k, v) == [k |-> k, v |-> v]
EOF == Tok("eof", <<>>)
Puncts == {Tok(k, <<>>) : k \in {"pub", "type", "lt", "gt", "comma", "eq", "colon2"}}
IdentToks == {Tok("ident", i) : i \in Idents}
LitToks == {Tok("lit", s) : s \in LitStrs}
NodeAlphabet == Puncts \cup IdentToks \cup LitToks

Idle == [k |-> "idle"]
CompileError(msg) == [kind |-> "compile_error", msg |-> msg]

\* ------------------------------------------------- format strings
(* format!/write! with positional "{}" arguments: "{{" and "}}" are the    *)
(* escaped braces, "{}" takes the next argument, any other brace is an     *)
(* invalid format string; an argument left unused or missing is an error.  *)
(* The result is [ok, s]: ok = FALSE stands for the rustc error.           *)
RECURSIVE FmtFrom(_, _, _, _)
FmtFrom(fmt, i, args, used) ==
  IF i > Len(fmt) THEN [ok |-> used = Len(args), s |-> <<>>]
  ELSE LET two == IF i + 1 <= Len(fmt) THEN <<fmt[i], fmt[i + 1]>> ELSE <<fmt[i]>>
       IN  IF two = <<"{", "{">> \/ two = <<"}", "}">>
           THEN LET r == FmtFrom(fmt, i + 2, args, used)
                IN  [ok |-> r.ok, s |-> <<fmt[i]>> \o r.s]
           ELSE IF two = <<"{", "}">>
           THEN IF used < Len(args)
                THEN LET r == FmtFrom(fmt, i + 2, args, used + 1)
                     IN  [ok |-> r.ok, s |-> args[used + 1] \o r.s]
                ELSE [ok |-> FALSE, s |-> <<>>]
           ELSE IF fmt[i] \in {"{", "}"}
           THEN [ok |-> FALSE, s |-> <<>>]
           ELSE LET r == FmtFrom(fmt, i + 1, args, used)
                IN  [ok |-> r.ok, s |-> <<fmt[i]>> \o r.s]

Fmt(fmt, args) == FmtFrom(fmt, 1, args, 0)

\* ------------------------------------------------- error_node: emitters
format_variant_name(number) == <<"Variant", number>>

error_node_enum(name, pub, vs) ==
  [derive |-> "Debug", is_pub |-> pub, name |-> name,
   variants |-> [i \in 1..Len(vs) |->
                   [tag |-> format_variant_name(i - 1), ty |-> vs[i]]]]

\* "{}: {{}}" of line 311
PrefixTemplate == <<"{", "}", ":", " ", "{", "{", "}", "}">>

error_node_display_impl(name, prefix) ==
  [for |-> name,
   message_format |-> Fmt(PrefixTemplate,
                          <<IF prefix.some THEN prefix.v ELSE name>>).s,
   expect_message |-> <<name, " always has a source">>]

error_node_error_impl(name, vs) ==
  [for |-> name,
   arms |-> [i \in 1..Len(vs) |-> format_variant_name(i - 1)]]

\* the From impls with the tags counted from one
error_node_from_impls_OneBased(name, vs) ==
  [i \in 1..Len(vs) |->
     [from |-> vs[i], for |-> name, tag |-> format_variant_name(i)]]

error_node_from_impls(name, vs) ==
  [i \in 1..Len(vs) |->
     [from |-> vs[i], for |-> name, tag |-> format_variant_name(i - 1)]]

\* the expansion of a parsed ErrorNode (lines 393-408)
error_node_expand(input) ==
  [kind |-> "items",
   enum |-> error_node_enum(input.node_name, input.is_pub, input.variants),
   display |-> error_node_display_impl(input.node_name, input.message_prefix),
   error |-> error_node_error_impl(input.node_name, input.variants),
   froms |-> error_node_from_impls(input.node_name, input.variants)]

\* ------------------------------------------------- the parse stream
\* Moving the cursor past the current token reveals the following one.
Following == IF Len(tokens) + 1 >= MaxTokens THEN {EOF} ELSE NodeAlphabet \cup {EOF}

Advance(alphabetAfter) ==
  /\ tokens' = Append(tokens, next)
  /\ next' \in alphabetAfter

\* a syn::Error leaving the macro: parse_macro_input! returns its compile_error
Fail(expected) ==
  /\ pc' = "error"
  /\ out' = CompileError(expected)
  /\ UNCHANGED <<tokens, next>>

RunTimeIdle == UNCHANGED <<value, call, cause, rendered>>
LeafIdle == UNCHANGED <<msg_fmt, item>>

\* ------------------------------------------------- ErrorNode::parse
ParseVisibility ==
  /\ pc = "start"
  /\ is_pub' = (next.k = "pub")
  /\ IF next.k = "pub" THEN Advance(Following) ELSE UNCHANGED <<tokens, next>>
  /\ pc' = "type"
  /\ UNCHANGED <<node_name, variants, message_prefix, out>>
  /\ RunTimeIdle /\ LeafIdle

ParseTypeKeyword ==
  /\ pc = "type"
  /\ IF next.k = "type"
     THEN Advance(Following) /\ pc' = "name" /\ UNCHANGED out
     ELSE Fail("expected type")
  /\ UNCHANGED <<is_pub, node_name, variants, message_prefix>>
  /\ RunTimeIdle /\ LeafIdle

ParseNodeName ==
  /\ pc = "name"
  /\ IF next.k = "ident"
     THEN Advance(Following) /\ node_name' = next.v /\ pc' = "open" /\ UNCHANGED out
     ELSE Fail("expected identifier") /\ UNCHANGED node_name
  /\ UNCHANGED <<is_pub, variants, message_prefix>>
  /\ RunTimeIdle /\ LeafIdle

ParseOpenAngle ==
  /\ pc = "open"
  /\ IF next.k = "lt"
     THEN Advance(Following) /\ pc' = "loop" /\ variants' = <<>> /\ UNCHANGED out
     ELSE Fail("expected <") /\ UNCHANGED variants
  /\ UNCHANGED <<is_pub, node_name, message_prefix>>
  /\ RunTimeIdle /\ LeafIdle

\* the closing bracket refused while the list is empty
VariantLoopClose_NonEmpty ==
  /\ pc = "loop"
  /\ next.k = "gt"
  /\ IF variants = <<>>
     THEN Fail("expected identifier")
     ELSE Advance(Following) /\ pc' = "tail" /\ UNCHANGED out
  /\ UNCHANGED <<is_pub, node_name, variants, message_prefix>>
  /\ RunTimeIdle /\ LeafIdle

\* lines 248-250: the closing bracket ends the loop
VariantLoopClose ==
  /\ pc = "loop"
  /\ next.k = "gt"
  /\ Advance(Following)
  /\ pc' = "tail"
  /\ UNCHANGED <<is_pub, node_name, variants, message_prefix, out>>
  /\ RunTimeIdle /\ LeafIdle

\* the push reading the identifier without moving the cursor past it
VariantLoopPush_Peek ==
  /\ pc = "loop"
  /\ next.k # "gt"
  /\ IF next.k = "ident"
     THEN /\ variants' = Append(variants, next.v)
          /\ pc' = "sep"
          /\ UNCHANGED <<tokens, next, out>>
     ELSE Fail("expected identifier") /\ UNCHANGED variants
  /\ UNCHANGED <<is_pub, node_name, message_prefix>>
  /\ RunTimeIdle /\ LeafIdle

\* line 252: variants.push(input.parse()?) with Vec<Ident>
VariantLoopPush ==
  /\ pc = "loop"
  /\ next.k # "gt"
  /\ IF next.k = "ident"
     THEN Advance(Following) /\ variants' = Append(variants, next.v)
          /\ pc' = "sep" /\ UNCHANGED out
     ELSE Fail("expected identifier") /\ UNCHANGED variants
  /\ UNCHANGED <<is_pub, node_name, message_prefix>>
  /\ RunTimeIdle /\ LeafIdle

\* lines 253-255: a comma, when there is one, is consumed
VariantLoopComma ==
  /\ pc = "sep"
  /\ IF next.k = "comma" THEN Advance(Following) ELSE UNCHANGED <<tokens, next>>
  /\ pc' = "loop"
  /\ UNCHANGED <<is_pub, node_name, variants, message_prefix, out>>
  /\ RunTimeIdle /\ LeafIdle

\* lines 259-267
ParseTail ==
  /\ pc = "tail"
  /\ IF next = EOF
     THEN /\ message_prefix' = None
          /\ pc' = "parsed"
          /\ UNCHANGED <<tokens, next, out>>
     ELSE /\ IF next.k = "eq"
             THEN Advance(Following) /\ pc' = "prefix" /\ UNCHANGED out
             ELSE Fail("expected =")
          /\ UNCHANGED message_prefix
  /\ UNCHANGED <<is_pub, node_name, variants>>
  /\ RunTimeIdle /\ LeafIdle

\* the prefix taken from an identifier as well as from a string literal
ParsePrefix_Unquoted ==
  /\ pc = "prefix"
  /\ IF next.k \in {"lit", "ident"}
     THEN Advance(Following) /\ message_prefix' = Some(next.v)
          /\ pc' = "parsed" /\ UNCHANGED out
     ELSE Fail("expected string literal") /\ UNCHANGED message_prefix
  /\ UNCHANGED <<is_pub, node_name, variants>>
  /\ RunTimeIdle /\ LeafIdle

\* lines 268-274
ParsePrefix ==
  /\ pc = "prefix"
  /\ IF next.k = "lit"
     THEN Advance(Following) /\ message_prefix' = Some(next.v)
          /\ pc' = "parsed" /\ UNCHANGED out
     ELSE Fail("expected string literal") /\ UNCHANGED message_prefix
  /\ UNCHANGED <<is_pub, node_name, variants>>
  /\ RunTimeIdle /\ LeafIdle

\* ------------------------------------------------- error_node
ParsedNode ==
  [is_pub |-> is_pub, node_name |-> node_name, variants |-> variants,
   message_prefix |-> message_prefix]

\* line 392: parse_macro_input! fails when ErrorNode::parse left tokens unread;
\* lines 393-408 otherwise
ErrorNodeExpand ==
  /\ pc = "parsed"
  /\ IF next = EOF
     THEN /\ out' = error_node_expand(ParsedNode)
          /\ pc' = "done"
          /\ UNCHANGED <<tokens, next>>
     ELSE Fail("unexpected token")
  /\ UNCHANGED <<is_pub, node_name, variants, message_prefix>>
  /\ RunTimeIdle /\ LeafIdle

InitNode ==
  /\ tokens = <<>>
  /\ next \in NodeAlphabet \cup {EOF}
  /\ pc = "start"
  /\ is_pub = FALSE
  /\ node_name = <<>>
  /\ variants = <<>>
  /\ message_prefix = None
  /\ msg_fmt = None
  /\ item = Idle
  /\ out = Idle
  /\ value = Idle
  /\ call = Idle
  /\ cause = None
  /\ rendered = None

NextNode ==
  \/ ParseVisibility
  \/ ParseTypeKeyword
  \/ ParseNodeName
  \/ ParseOpenAngle
  \/ VariantLoopClose
  \/ VariantLoopPush
  \/ VariantLoopComma
  \/ ParseTail
  \/ ParsePrefix
  \/ ErrorNodeExpand

SpecNode == InitNode /\ [][NextNode]_vars

\* ------------------------------------------------- the documented grammar
(* NodeDecl := ["pub"] "type" Identifier "<" VariantList ">" ["=" StringLiteral] *)
(* VariantList := [TypeRef ("," TypeRef)* [","]],  TypeRef := Ident ("::" Ident)* *)
(* as an automaton over token kinds; "dead" once no declaration continues.  *)
GrammarStep(q, k) ==
  CASE q = "g_start" /\ k = "pub"     -> "g_vis"
    [] q = "g_start" /\ k = "type"    -> "g_type"
    [] q = "g_vis" /\ k = "type"      -> "g_type"
    [] q = "g_type" /\ k = "ident"    -> "g_name"
    [] q = "g_name" /\ k = "lt"       -> "g_list"
    [] q = "g_list" /\ k = "ident"    -> "g_ref"
    [] q = "g_list" /\ k = "gt"       -> "g_closed"
    [] q = "g_ref" /\ k = "colon2"    -> "g_path"
    [] q = "g_ref" /\ k = "comma"     -> "g_comma"
    [] q = "g_ref" /\ k = "gt"        -> "g_closed"
    [] q = "g_path" /\ k = "ident"    -> "g_ref"
    [] q = "g_comma" /\ k = "ident"   -> "g_ref"
    [] q = "g_comma" /\ k = "gt"      -> "g_closed"
    [] q = "g_closed" /\ k = "eq"     -> "g_eq"
    [] q = "g_eq" /\ k = "lit"        -> "g_prefix"
    [] OTHER                          -> "dead"

RECURSIVE GrammarRun(_, _, _)
GrammarRun(q, ts, i) ==
  IF i > Len(ts) THEN q ELSE GrammarRun(GrammarStep(q, ts[i].k), ts, i + 1)

GrammarState(ts) == GrammarRun("g_start", ts, 1)
WellFormed(ts) == GrammarState(ts) \in {"g_closed", "g_prefix"}
\* some well-formed declaration starts with ts followed by t
Continues(ts, t) ==
  IF t = EOF THEN WellFormed(ts) ELSE GrammarState(Append(ts, t)) # "dead"

\* first index of a token of kind k, 0 when there is none
RECURSIVE IndexOf(_, _, _)
IndexOf(ts, k, i) ==
  IF i > Len(ts) THEN 0 ELSE IF ts[i].k = k THEN i ELSE IndexOf(ts, k, i + 1)

\* the type references of a well-formed declaration, in order, each the
\* sequence of its path segments
RECURSIVE RefsFrom(_, _, _)
RefsFrom(ts, i, acc) ==
  IF i > Len(ts) \/ ts[i].k = "gt" THEN acc
  ELSE IF ts[i].k = "ident"
       THEN IF i > 1 /\ ts[i - 1].k = "colon2"
            THEN RefsFrom(ts, i + 1,
                          [acc EXCEPT ![Len(acc)] = Append(@, ts[i].v)])
            ELSE RefsFrom(ts, i + 1, Append(acc, <<ts[i].v>>))
       ELSE RefsFrom(ts, i + 1, acc)

DeclaredRefs(ts) == RefsFrom(ts, IndexOf(ts, "lt", 1) + 1, <<>>)
DeclaredName(ts) == ts[IndexOf(ts, "type", 1) + 1].v
DeclaredPrefix(ts) ==
  IF ts[Len(ts)].k = "lit" THEN Some(ts[Len(ts)].v) ELSE None
\* the tokens after the closing bracket
AfterClose(ts) == SubSeq(ts, IndexOf(ts, "gt", 1) + 1, Len(ts))
Closed(ts) == IndexOf(ts, "gt", 1) > 0

Finished == pc \in {"done", "error"}

\* ------------------------------------------------- claims on error_node!

AdjacentRefs(ts) ==
  \E i \in 1..(Len(ts) - 1) :
     /\ ts[i].k = "ident" /\ ts[i + 1].k = "ident"
     /\ IndexOf(ts, "lt", 1) \in 1..(i - 1)
     /\ IndexOf(ts, "gt", 1) \notin 1..i
(* C3: a declaration with two type references adjacent in the variant list, *)
(* no comma between them, never parses successfully.                        *)
C3_MissingCommaRejected == pc = "done" => ~AdjacentRefs(tokens)

AtPathSeparator ==
  /\ GrammarState(tokens) = "g_ref"
  /\ next.k = "colon2"
(* C4: a declaration whose variant list holds a qualified type reference    *)
(* (the cursor stands on the "::" after a path's first segment) is not      *)
(* rejected there, and once parsed the variant holds the whole path.        *)
C4_QualifiedRefAccepted ==
  /\ AtPathSeparator => pc # "error"
  /\ (pc = "done" /\ WellFormed(tokens)) =>
        \A i \in 1..Len(DeclaredRefs(tokens)) :
           Len(DeclaredRefs(tokens)[i]) > 1 =>
              i <= Len(variants) /\ variants[i] = DeclaredRefs(tokens)[i]

ResultMatches(ts) ==
  /\ is_pub = (ts[1].k = "pub")
  /\ node_name = DeclaredName(ts)
  /\ Len(variants) = Len(DeclaredRefs(ts))
  /\ \A i \in 1..Len(variants) : <<variants[i]>> = DeclaredRefs(ts)[i]
  /\ message_prefix = DeclaredPrefix(ts)
(* C5: on a well-formed declaration the parser does not fail, and its       *)
(* result is: is_pub iff the input starts with pub, the name after type,    *)
(* the declared references in order, the prefix none iff the input ends     *)
(* after the closing bracket and the literal after = otherwise.             *)
C5_ResultDetermined ==
  /\ pc = "error" => ~Continues(tokens, next)
  /\ (pc = "done" /\ WellFormed(tokens)) => ResultMatches(tokens)

\* C5 on the declarations whose references are all plain identifiers
C5_PlainResultDetermined ==
  /\ (pc = "error" /\ next.k # "colon2") => ~Continues(tokens, next)
  /\ (pc = "done" /\ WellFormed(tokens)) => ResultMatches(tokens)

AcceptedTail(ts) ==
  \/ ts = <<>>
  \/ Len(ts) = 2 /\ ts[1].k = "eq" /\ ts[2].k = "lit"
TailCanContinue(ts, t) ==
  \/ ts = <<>> /\ (t = EOF \/ t.k = "eq")
  \/ Len(ts) = 1 /\ ts[1].k = "eq" /\ t.k = "lit"
  \/ Len(ts) = 2 /\ ts[1].k = "eq" /\ ts[2].k = "lit" /\ t = EOF
(* C6: once the closing bracket is consumed, error_node succeeds only when  *)
(* the input ends there or continues with = and one string literal and then *)
(* ends; it fails exactly where the continuation leaves that shape, and a   *)
(* failure returns the diagnostic alone.                                    *)
C6_TailContinuations ==
  Closed(tokens) =>
    /\ pc = "done" => /\ next = EOF
                      /\ AcceptedTail(AfterClose(tokens))
                      /\ out.kind = "items"
    /\ pc = "error" => /\ ~TailCanContinue(AfterClose(tokens), next)
                       /\ out.kind = "compile_error"
    /\ ~Finished => out = Idle
    /\ (pc = "parsed" /\ next = EOF) => AcceptedTail(AfterClose(tokens))
C6_Witness ==
  /\ pc = "error"
  /\ Closed(tokens)
  /\ Len(AfterClose(tokens)) = 1
  /\ next.k = "ident"

EmptyListAtCursor ==
  /\ Len(tokens) >= 1
  /\ tokens[Len(tokens)].k = "lt"
  /\ GrammarState(tokens) = "g_list"
  /\ next.k = "gt"
EmptyListClosed ==
  \E i \in 1..(Len(tokens) - 1) : tokens[i].k = "lt" /\ tokens[i + 1].k = "gt"
(* C9: an empty variant list is accepted: the closing bracket right after   *)
(* the opening one is no error, the parsed declaration has no variants, and *)
(* the expansion has an enum without variants, no From impl and a source()  *)
(* match without arms.                                                      *)
C9_EmptyVariantListAccepted ==
  /\ EmptyListAtCursor => pc # "error"
  /\ EmptyListClosed =>
       /\ variants = <<>>
       /\ pc = "error" => out.msg \in {"expected =", "expected string literal",
                                       "unexpected token"}
       /\ pc = "done" => /\ out.kind = "items"
                         /\ out.enum.variants = <<>>
                         /\ out.froms = <<>>
                         /\ out.error.arms = <<>>
C9_Witness ==
  /\ pc = "done"
  /\ EmptyListClosed
  /\ out.kind = "items"
  /\ out.error.arms = <<>>

LoopPass ==
  pc = "loop" =>
    \/ /\ pc' = "tail" /\ next.k = "gt"
       /\ tokens' = Append(tokens, next) /\ variants' = variants
    \/ /\ pc' = "sep" /\ next.k = "ident"
       /\ tokens' = Append(tokens, next) /\ variants' = Append(variants, next.v)
    \/ /\ pc' = "error" /\ next.k \notin {"gt", "ident"}
LoopBack ==
  pc = "sep" => pc' = "loop" /\ Len(tokens') >= Len(tokens)
(* C10: every pass through the variant-list loop either consumes the        *)
(* closing bracket and leaves the loop, consumes one type-reference token,  *)
(* or fails; at the end of input it fails; so the variants never outnumber  *)
(* the tokens consumed.                                                     *)
C10_LoopTerminates ==
  /\ [][LoopPass /\ LoopBack]_vars
  /\ [](Len(variants) <= Len(tokens) /\ Len(tokens) <= MaxTokens)
  /\ []((pc = "loop" /\ next = EOF) => ENABLED VariantLoopPush)
C10_Witness ==
  /\ pc = "error"
  /\ out = CompileError("expected identifier")
  /\ next = EOF
  /\ Len(variants) = 2

\* ------------------------------------------------- #[error_leaf]
\* The attribute payload: string literals, identifiers, "::", "!", a
\* delimited group (its content is the macro's own business) and a comma
\* standing for any other token.
LeafAlphabet ==
  LitToks \cup IdentToks
    \cup {Tok(k, <<>>) : k \in {"colon2", "bang", "group", "comma"}}
LeafFollowing ==
  IF Len(tokens) + 1 >= MaxTokens THEN {EOF} ELSE LeafAlphabet \cup {EOF}

\* what the annotated item is: a struct (with its name) or something else
Items == {[is_struct |-> TRUE, ident |-> <<"A">>], [is_struct |-> FALSE, ident |-> <<>>]}
FieldValues == {-1, 0, 1}

Lit(l) == [form |-> "Lit", lit |-> l]
Format(m) == [form |-> "Format", mac |-> m]

NodeIdle == UNCHANGED <<is_pub, node_name, variants, message_prefix>>

\* lines 151-153: a string literal at the cursor selects Lit
MessageFormatLit ==
  /\ pc = "attr"
  /\ next.k = "lit"
  /\ msg_fmt' = Some(Lit(next.v))
  /\ Advance(LeafFollowing)
  /\ pc' = "attr_parsed"
  /\ UNCHANGED <<item, out, value, call, cause, rendered>> /\ NodeIdle

\* lines 154-155: anything else is parsed as a Macro: its path may start
\* with "::"
MessageFormatMacro ==
  /\ pc = "attr"
  /\ next.k # "lit"
  /\ IF next.k = "colon2" THEN Advance(LeafFollowing) ELSE UNCHANGED <<tokens, next>>
  /\ pc' = "path_segment"
  /\ UNCHANGED <<msg_fmt, item, out, value, call, cause, rendered>> /\ NodeIdle

MacroPathSegment ==
  /\ pc = "path_segment"
  /\ IF next.k = "ident"
     THEN Advance(LeafFollowing) /\ pc' = "path_sep" /\ UNCHANGED out
     ELSE Fail("expected identifier")
  /\ UNCHANGED <<msg_fmt, item, value, call, cause, rendered>> /\ NodeIdle

MacroPathSeparator ==
  /\ pc = "path_sep"
  /\ IF next.k = "colon2"
     THEN Advance(LeafFollowing) /\ pc' = "path_segment"
     ELSE UNCHANGED <<tokens, next>> /\ pc' = "bang"
  /\ UNCHANGED <<msg_fmt, item, out, value, call, cause, rendered>> /\ NodeIdle

MacroBang ==
  /\ pc = "bang"
  /\ IF next.k = "bang"
     THEN Advance(LeafFollowing) /\ pc' = "delimiter" /\ UNCHANGED out
     ELSE Fail("expected !")
  /\ UNCHANGED <<msg_fmt, item, value, call, cause, rendered>> /\ NodeIdle

MacroDelimiter ==
  /\ pc = "delimiter"
  /\ IF next.k = "group"
     THEN /\ Advance(LeafFollowing)
          /\ msg_fmt' = Some(Format(Append(tokens, next)))
          /\ pc' = "attr_parsed"
          /\ UNCHANGED out
     ELSE Fail("expected delimiter") /\ UNCHANGED msg_fmt
  /\ UNCHANGED <<item, value, call, cause, rendered>> /\ NodeIdle

\* the attribute accepted with tokens left after the MessageFormat
LeafParseInputs_NoEndCheck ==
  /\ pc = "attr_parsed"
  /\ IF ~item.is_struct THEN Fail("expected struct")
     ELSE pc' = "expand" /\ UNCHANGED <<tokens, next, out>>
  /\ UNCHANGED <<msg_fmt, item, value, call, cause, rendered>> /\ NodeIdle

\* line 186: parse_macro_input! fails when MessageFormat::parse left tokens
\* unread; line 187: the item must parse as a struct
LeafParseInputs ==
  /\ pc = "attr_parsed"
  /\ IF next # EOF THEN Fail("unexpected token")
     ELSE IF ~item.is_struct THEN Fail("expected struct")
     ELSE pc' = "expand" /\ UNCHANGED <<tokens, next, out>>
  /\ UNCHANGED <<msg_fmt, item, value, call, cause, rendered>> /\ NodeIdle

\* "{}" of lines 195 and 204
Braces == <<"{", "}">>

\* the literal emitted as the format string itself
error_leaf_display_impl_AsFormat(struct_name, fmt) ==
  IF fmt.form = "Lit"
  THEN [for |-> struct_name, format |-> fmt.lit, args |-> <<>>]
  ELSE [for |-> struct_name, format |-> Braces, args |-> <<fmt>>]

\* lines 190-209
error_leaf_display_impl(struct_name, fmt) ==
  [for |-> struct_name, format |-> Braces, args |-> <<fmt>>]

\* lines 210-222
error_leaf_expand(fmt, struct_def) ==
  [kind |-> "items",
   derive_debug |-> "Debug",
   struct_def |-> struct_def,
   display_impl |-> error_leaf_display_impl(struct_def.ident, fmt),
   error_impl |-> [for |-> struct_def.ident, source |-> None]]

LeafExpand ==
  /\ pc = "expand"
  /\ out' = error_leaf_expand(msg_fmt.v, item)
  /\ pc' = "done"
  /\ UNCHANGED <<tokens, next, msg_fmt, item, value, call, cause, rendered>>
  /\ NodeIdle

\* the emitted Display of a leaf: write!(f, <format>, <args>); a literal
\* argument is its text (a template's value is the host compiler's to compute)
LeafDisplay(impl) == Fmt(impl.format, [i \in 1..Len(impl.args) |-> impl.args[i].lit])

\* run time: an instance of the emitted struct, with any field value
LeafConstruct ==
  /\ pc = "done"
  /\ out.kind = "items"
  /\ value = Idle
  /\ \E f \in FieldValues : value' = [ty |-> out.struct_def.ident, field |-> f]
  /\ UNCHANGED <<tokens, next, pc, msg_fmt, item, out, call, cause, rendered>>
  /\ NodeIdle

LeafFmt ==
  /\ value # Idle
  /\ rendered = None
  /\ msg_fmt.v.form = "Lit"
  /\ rendered' = Some(LeafDisplay(out.display_impl))
  /\ cause' = out.error_impl.source
  /\ UNCHANGED <<tokens, next, pc, msg_fmt, item, out, value, call>>
  /\ NodeIdle

InitLeaf ==
  /\ tokens = <<>>
  /\ next \in LeafAlphabet \cup {EOF}
  /\ pc = "attr"
  /\ is_pub = FALSE
  /\ node_name = <<>>
  /\ variants = <<>>
  /\ message_prefix = None
  /\ msg_fmt = None
  /\ item \in Items
  /\ out = Idle
  /\ value = Idle
  /\ call = Idle
  /\ cause = None
  /\ rendered = None

NextLeaf ==
  \/ MessageFormatLit
  \/ MessageFormatMacro
  \/ MacroPathSegment
  \/ MacroPathSeparator
  \/ MacroBang
  \/ MacroDelimiter
  \/ LeafParseInputs
  \/ LeafExpand
  \/ LeafConstruct
  \/ LeafFmt

SpecLeaf == InitLeaf /\ [][NextLeaf]_vars

\* ------------------------------------------------- claims on #[error_leaf]
\* a macro call: [::] Ident (:: Ident)* ! Group
MacroStep(q, k) ==
  CASE q = "m_start" /\ k = "colon2"  -> "m_lead"
    [] q = "m_start" /\ k = "ident"   -> "m_seg"
    [] q = "m_lead" /\ k = "ident"    -> "m_seg"
    [] q = "m_seg" /\ k = "colon2"    -> "m_lead"
    [] q = "m_seg" /\ k = "bang"      -> "m_bang"
    [] q = "m_bang" /\ k = "group"    -> "m_call"
    [] OTHER                          -> "dead"

RECURSIVE MacroRun(_, _, _)
MacroRun(q, ts, i) ==
  IF i > Len(ts) THEN q ELSE MacroRun(MacroStep(q, ts[i].k), ts, i + 1)

IsMacroCall(ts) == MacroRun("m_start", ts, 1) = "m_call"
StartsWithLiteral(ts) == Len(ts) >= 1 /\ ts[1].k = "lit"
\* the payload as far as the macro has looked at it
Payload == IF next = EOF THEN tokens ELSE Append(tokens, next)
PayloadEnded == next = EOF

(* C7: the resolver selects the form from the payload's shape: Lit exactly  *)
(* when the payload starts with a string literal, Format when the payload   *)
(* is a macro call; error_leaf's parse of any other payload (the empty one  *)
(* too) fails; and a failure returns the diagnostic alone: no struct, no    *)
(* Display impl, no Error impl.                                             *)
C7_MessageFormSelected ==
  /\ (StartsWithLiteral(Payload) /\ pc # "attr") => msg_fmt = Some(Lit(Payload[1].v))
  /\ msg_fmt.some => (msg_fmt.v.form = "Lit" <=> StartsWithLiteral(Payload))
  /\ (IsMacroCall(Payload) /\ PayloadEnded /\ pc \notin {"attr", "path_segment",
                                                         "path_sep", "bang", "delimiter"})
       => /\ msg_fmt = Some(Format(Payload))
          /\ pc = "error" => out = CompileError("expected struct")
  /\ (~StartsWithLiteral(Payload) /\ ~(IsMacroCall(Payload) /\ PayloadEnded))
       => pc \notin {"expand", "done"}
  /\ pc \in {"expand", "done"} =>
        /\ PayloadEnded
        /\ IsMacroCall(Payload) \/ (Len(Payload) = 1 /\ StartsWithLiteral(Payload))
  /\ (pc = "attr" /\ Payload = <<>>) => ENABLED MessageFormatMacro
  /\ (pc = "path_segment" /\ Payload = <<>>) => ENABLED MacroPathSegment
  /\ pc = "error" <=> (out # Idle /\ out.kind = "compile_error")
  /\ pc = "error" => DOMAIN out = {"kind", "msg"}
C7_Witness ==
  /\ pc = "error"
  /\ Payload = <<>>
  /\ item.is_struct
  /\ out = CompileError("expected identifier")

(* C8: a leaf declared with a literal message m renders exactly m, whatever *)
(* m holds (braces too) and whatever the instance's field value: the        *)
(* emitted Display passes m as the argument of the fixed format "{}".       *)
C8_LiteralRenderedExactly ==
  /\ (pc = "done" /\ msg_fmt.v.form = "Lit") =>
        /\ out.display_impl.format = Braces
        /\ out.display_impl.args = <<Lit(tokens[1].v)>>
  /\ rendered.some => rendered.v = [ok |-> TRUE, s |-> tokens[1].v]
C8_Witness ==
  /\ rendered.some
  /\ tokens = <<Tok("lit", <<"{", "x">>)>>
  /\ value.field = -1
  /\ rendered.v.s = <<"{", "x">>

\* ------------------------------------------------- the emitted code at run time
\* An instance carries the expansion of its type (impl) and, for the claims,
\* the declaration it came from (decl).
LeafName == <<"L">>
OtherName == <<"O">>
NodeNameAt(depth) == [i \in 1..depth |-> "N"]

RECURSIVE Depth(_)
Depth(v) == IF v.kind = "leaf" THEN 0 ELSE 1 + Depth(v.inner)

\* source(): the emitted match of lines 345-349; a leaf's impl has no source
Source(v) ==
  IF v.kind = "leaf" THEN v.impl.error_impl.source
  ELSE IF \E j \in 1..Len(v.impl.error.arms) : v.impl.error.arms[j] = v.tag
       THEN Some(v.inner)
       ELSE None

\* Display: line 323 for a node, lines 195/204 for a leaf
RECURSIVE Display(_)
Display(v) ==
  IF v.kind = "leaf" THEN LeafDisplay(v.impl.display_impl)
  ELSE LET src == Display(Source(v).v)
           r == Fmt(v.impl.display.message_format, <<src.s>>)
       IN  [ok |-> src.ok /\ r.ok, s |-> r.s]

\* rustc on an expansion: the format string given to write! must be valid
\* for one argument, and two From impls for one type conflict
RustcAccepts(items) ==
  /\ Fmt(items.display.message_format, <<<<>>>>).ok
  /\ \A i, j \in 1..Len(items.froms) :
        items.froms[i].from = items.froms[j].from => i = j

VariantLists(child) ==
  UNION {[1..n -> {child, OtherName}] : n \in 1..MaxVariants}

\* the messages of the leaf under the nodes: empty, a letter, a lone brace
TreeLeafMessages == {m \in LitStrs : Len(m) <= 1}

\* #[error_leaf("<m>")] struct L {} and an instance of it
TreeLeaf ==
  /\ pc = "tree"
  /\ \E m \in TreeLeafMessages :
       LET struct_def == [is_struct |-> TRUE, ident |-> LeafName]
       IN  /\ msg_fmt' = Some(Lit(m))
           /\ item' = struct_def
           /\ out' = error_leaf_expand(Lit(m), struct_def)
           /\ value' = [kind |-> "leaf", ty |-> LeafName,
                        impl |-> error_leaf_expand(Lit(m), struct_def), decl |-> m]
  /\ pc' = "instance"
  /\ UNCHANGED <<tokens, next, call, cause, rendered>> /\ NodeIdle

\* error_node! on a declaration that may hold the instance's type
TreeErrorNode ==
  /\ pc = "instance"
  /\ Depth(value) < MaxDepth
  /\ \E vs \in VariantLists(value.ty), prefix \in {None} \cup {Some(l) : l \in LitStrs} :
       /\ is_pub' = FALSE
       /\ node_name' = NodeNameAt(Depth(value) + 1)
       /\ variants' = vs
       /\ message_prefix' = prefix
       /\ out' = error_node_expand([is_pub |-> FALSE,
                                   node_name |-> NodeNameAt(Depth(value) + 1),
                                   variants |-> vs, message_prefix |-> prefix])
  /\ pc' = IF RustcAccepts(out') THEN "declared" ELSE "rustc_error"
  /\ UNCHANGED <<tokens, next, msg_fmt, item, value, call, cause, rendered>>

\* lines 363-367: the From impl for the instance's type
TreeFrom ==
  /\ pc = "declared"
  /\ \E i \in 1..Len(out.froms) :
       /\ out.froms[i].from = value.ty
       /\ value' = [kind |-> "node", ty |-> out.froms[i].for, tag |-> out.froms[i].tag,
                    inner |-> value, impl |-> out, decl |-> ParsedNode]
       /\ call' = [idx |-> i, arg |-> value]
  /\ pc' = "lifted"
  /\ cause' = None
  /\ rendered' = None
  /\ UNCHANGED <<tokens, next, msg_fmt, item, out>> /\ NodeIdle

TreeSource ==
  /\ pc = "lifted"
  /\ cause' = Source(value)
  /\ pc' = "sourced"
  /\ UNCHANGED <<tokens, next, msg_fmt, item, out, value, call, rendered>> /\ NodeIdle

TreeFmt ==
  /\ pc = "sourced"
  /\ rendered' = Some(Display(value))
  /\ pc' = "instance"
  /\ UNCHANGED <<tokens, next, msg_fmt, item, out, value, call, cause>> /\ NodeIdle

InitTree ==
  /\ tokens = <<>>
  /\ next = EOF
  /\ pc = "tree"
  /\ is_pub = FALSE
  /\ node_name = <<>>
  /\ variants = <<>>
  /\ message_prefix = None
  /\ msg_fmt = None
  /\ item = Idle
  /\ out = Idle
  /\ value = Idle
  /\ call = Idle
  /\ cause = None
  /\ rendered = None

NextTree ==
  \/ TreeLeaf
  \/ TreeErrorNode
  \/ TreeFrom
  \/ TreeSource
  \/ TreeFmt

SpecTree == InitTree /\ [][NextTree]_vars

\* ------------------------------------------------- claims on the emitted code
PrefixOf(decl) ==
  IF decl.message_prefix.some THEN decl.message_prefix.v ELSE decl.node_name

\* the colon-joined chain of the declared prefixes down to the leaf's message
RECURSIVE Chain(_)
Chain(v) ==
  IF v.kind = "leaf" THEN v.decl
  ELSE PrefixOf(v.decl) \o <<":", " ">> \o Chain(v.inner)

(* C1: a node renders as its declared prefix (its name when it has none),   *)
(* ": ", and the rendering of its cause; down a chain of nodes this is the  *)
(* colon-joined chain of prefixes ending in the leaf's message.             *)
C1_NodeRendersPrefixThenCause ==
  (rendered.some /\ value # Idle /\ value.kind = "node") =>
     /\ rendered.v.ok
     /\ rendered.v.s = PrefixOf(value.decl) \o <<":", " ">> \o Display(cause.v).s
     /\ rendered.v.s = Chain(value)

\* C1 on the declarations whose prefix holds no brace
RECURSIVE BraceFree(_)
BraceFree(v) ==
  IF v.kind = "leaf" THEN TRUE
  ELSE /\ \A i \in 1..Len(PrefixOf(v.decl)) : PrefixOf(v.decl)[i] \notin {"{", "}"}
       /\ BraceFree(v.inner)
C1_BraceFreeRendersChain ==
  (rendered.some /\ value # Idle /\ value.kind = "node" /\ BraceFree(value)) =>
     rendered.v = [ok |-> TRUE, s |-> Chain(value)]

(* C2: the From impl emitted for position i builds the node with tag        *)
(* Variant<i> holding the given value, and source() on that node returns    *)
(* Some of that same value.                                                 *)
C2_FromThenSource ==
  (value # Idle /\ value.kind = "node") =>
     /\ value.decl.variants[call.idx] = call.arg.ty
     /\ value.tag = <<"Variant", call.idx - 1>>
     /\ value.inner = call.arg
     /\ value.impl.enum.variants[call.idx] = [tag |-> value.tag, ty |-> call.arg.ty]
     /\ pc # "lifted" => cause = Some(call.arg)
C2_Witness ==
  /\ pc = "sourced"
  /\ call.idx = 2
  /\ Depth(value) = 2
  /\ cause = Some(call.arg)

====
